---- MODULE Spec2Model ----
(***************************************************************************)
(* A model of the OpenAI file-search scripts: the OpenAIFileSearch class   *)
(* of search_api_implementation.py (parallel upload, retrieval evaluation, *)
(* the single-call methods) and the command line that drives it; the       *)
(* pipeline of VectorStoreVisualizer.visualize_vector_store and the        *)
(* commands of visualize_vector_store.py that create a store, fill it and  *)
(* visualize it.                                                           *)
(*                                                                         *)
(* File names are sequences of one-character strings, so that the string   *)
(* operations of the code (lower, endswith, replace, basename) are         *)
(* computed and not assumed.  The remote API is the environment: each call *)
(* either raises or returns, chosen nondeterministically.  Floating-point  *)
(* quotients are kept as exact fractions <<numerator, denominator>>.       *)
(***************************************************************************)
EXTENDS Integers, Sequences, FiniteSets, TLC

----------------------------------------------------------------------------
(* Bounds of the model                                                     *)

\* most entries of the directory given to the upload
MaxFiles == 3
\* how many tasks more than the pool has workers, in the saturated runs
PoolExtra == 1
\* most questions of the dictionary given to the evaluation
MaxQueries == 2
\* largest k of the evaluation
MaxK == 2
\* most annotations of one response
MaxRetrieved == 3
\* processors of the host
MaxCpu == 1
\* most documents the store answers the embedding query with
MaxDocs == 2
\* most directory entries given to visualize_vector_store.py
CliMaxFiles == 1

(* Program constants                                                       *)

\* ThreadPoolExecutor(max_workers=10) of the upload
max_workers == 10

----------------------------------------------------------------------------
(* Strings                                                                 *)

Min(a, b) == IF a < b THEN a ELSE b

PDF_EXT == <<".", "p", "d", "f">>
PDF_EXT_UPPER == <<".", "P", "D", "F">>
TXT_EXT == <<".", "t", "x", "t">>
Extensions == {PDF_EXT, PDF_EXT_UPPER, TXT_EXT}

\* str.lower() on the characters the model uses
LowerChar(c) ==
    CASE c = "P" -> "p"
      [] c = "D" -> "d"
      [] c = "F" -> "f"
      [] OTHER -> c

Lower(s) == [i \in 1..Len(s) |-> LowerChar(s[i])]

\* str.endswith(suffix)
EndsWith(s, suffix) ==
    /\ Len(s) >= Len(suffix)
    /\ SubSeq(s, Len(s) - Len(suffix) + 1, Len(s)) = suffix

\* the filter of the directory listing: f.lower().endswith('.pdf')
IsPdfName(f) == EndsWith(Lower(f), PDF_EXT)

\* the i-th entry of a directory: stem "f<i>" and an extension
EntryName(i, ext) == <<"f", ToString(i)>> \o ext

\* str.replace(old, new): the occurrences of old, left to right, not overlapping
RECURSIVE Replace(_, _, _)
Replace(s, old, new) ==
    IF Len(s) < Len(old)
    THEN s
    ELSE IF SubSeq(s, 1, Len(old)) = old
         THEN new \o Replace(SubSeq(s, Len(old) + 1, Len(s)), old, new)
         ELSE <<Head(s)>> \o Replace(Tail(s), old, new)

\* os.path.join(dir_pdfs, f) and os.path.basename(file_path)
PathJoin(dir, f) == [dir |-> dir, name |-> f]
Basename(path) == path.name

----------------------------------------------------------------------------
(* State                                                                   *)

VARIABLES
    action,      \* args.action of the command line
    argsOk,      \* whether the arguments the action requires were given
    mainPc,      \* where main() is
    exc,         \* the exception that left main(), "none" if none did
    printed,     \* the kinds of message printed so far
    listing,     \* os.listdir(dir_pdfs)
    pdf_files,   \* the paths the upload found
    upPc,        \* where upload_pdf_files_to_vector_store is
    upFut,       \* state of the future of each submitted upload
    upResult,    \* what each finished upload_single_pdf returned
    upCalls,     \* how often upload_single_pdf was entered for each file
    apiLog,      \* the API calls made for each file, in order
    upSpace,     \* what the remote API may do with each file
    stats,       \* the stats dictionary of the upload
    upReturn,    \* the dictionary returned by the upload
    questions_dict, \* the questions: (filename, query) in insertion order
    k,           \* the k of the evaluation
    cpu_count,   \* os.cpu_count() of the host
    rows,        \* the rows evaluate_retrieval builds
    evPc,        \* where evaluate_retrieval is
    evFut,       \* state of the future of each submitted query
    evResponse,  \* what the responses API did for each query
    evResult,    \* what each finished process_query returned
    results,     \* the results list of evaluate_retrieval
    metrics,     \* the dictionary returned by evaluate_retrieval
    evSpace,     \* what the responses API may do with a query
    calls,       \* the finished calls of the methods that call the API
    vector_store_id, \* the store the upload was asked to fill
    apiTrace,    \* the calls received by the remote API, with their answers
    ret,         \* what the last single-call method returned
    api_key,     \* the api_key argument of the constructors
    env_key,     \* os.getenv('OPENAI_API_KEY')
    self_api_key, \* self.api_key of the object constructed last
    client,      \* self.client of the object constructed last
    command,     \* args.command of visualize_vector_store.py
    cliPc,       \* the function of visualize_vector_store.py that runs next
    store_id,    \* store_id of create_and_visualize, args.store_id otherwise
    cliRet,      \* what the command's function returned
    fetchSpace,  \* what the store may answer to the embedding query
    vizPc,       \* where visualize_vector_store of the visualizer is
    vizStoreId,  \* the vector_store_id visualize_vector_store was given
    stageLog,    \* the stages of the pipeline invoked so far, in order
    failedStages, \* the stages in which an exception was raised
    embeddings_data, \* what fetch_embeddings returned
    reduced_embeddings, \* what reduce_dimensions returned
    cluster_labels, \* what apply_clustering returned
    df,          \* what create_visualization_data returned
    vizRet,      \* what visualize_vector_store returned
    vizExc       \* the exception that left visualize_vector_store

mainVars == <<action, argsOk, mainPc, exc, printed, calls>>
uploadVars == <<listing, pdf_files, upPc, upFut, upResult, upCalls, apiLog,
                upSpace, stats, upReturn>>
evalVars == <<questions_dict, k, cpu_count, rows, evPc, evFut, evResponse,
              evResult, results, metrics, evSpace>>
callVars == <<apiTrace, ret>>
ctorVars == <<api_key, env_key, self_api_key, client>>
cliVars == <<command, cliPc, store_id, cliRet>>
vizVars == <<fetchSpace, vizPc, vizStoreId, stageLog, failedStages,
             embeddings_data, reduced_embeddings, cluster_labels, df, vizRet,
             vizExc>>
extVars == <<vector_store_id, callVars, ctorVars, cliVars, vizVars>>
vars == <<mainVars, uploadVars, evalVars, extVars>>

Actions == {"create_store", "upload", "search", "llm_search",
            "generate_questions", "evaluate"}

\* what the two API calls of one upload can do
UploadOutcomes == {"success", "files_create_raises", "attach_raises"}

NoResult == [status |-> "none"]
NotReturned == [total_files |-> -1]

FileIdx == DOMAIN upFut

----------------------------------------------------------------------------
(* upload_single_pdf                                                       *)

\* the id of the file object files.create answers with: the API numbers
\* its file objects, here with the number the entry has in the directory
FileIdOf(file_path) == "file-" \o Basename(file_path)[2]

\* files.create(file=open(file_path, 'rb'), purpose="assistants") and the id
\* of the file object it answered with
FilesCreate(file_path) ==
    [api |-> "files.create", purpose |-> "assistants",
     answer |-> FileIdOf(file_path)]

\* the same call when it raises: there is no file object
FilesCreateRaises ==
    [api |-> "files.create", purpose |-> "assistants", answer |-> "raises"]

VectorStoresFilesCreate(vsid, file_id) ==
    [api |-> "vector_stores.files.create",
     vector_store_id |-> vsid, file_id |-> file_id]

\* an upload that attaches an id files.create did not answer with
UploadApiCallsByName(file_path, vsid, outcome) ==
    IF outcome = "files_create_raises"
    THEN <<FilesCreateRaises>>
    ELSE <<FilesCreate(file_path),
           VectorStoresFilesCreate(vsid, "file-")>>

\* an upload that deletes the file it created when the attach call raises
UploadApiCallsWithCleanup(file_path, vsid, outcome) ==
    IF outcome = "files_create_raises"
    THEN <<FilesCreateRaises>>
    ELSE <<FilesCreate(file_path),
           VectorStoresFilesCreate(vsid, FileIdOf(file_path))>>
         \o (IF outcome = "attach_raises"
             THEN <<[api |-> "files.delete", file_id |-> FileIdOf(file_path)]>>
             ELSE <<>>)

\* the API calls upload_single_pdf makes when the API behaves as `outcome`
UploadApiCalls(file_path, vsid, outcome) ==
    IF outcome = "files_create_raises"
    THEN <<FilesCreateRaises>>
    ELSE <<FilesCreate(file_path),
           VectorStoresFilesCreate(vsid, FileIdOf(file_path))>>

\* the finished call, as the caller sees it
CallOfUpload(outcome) ==
    [method |-> "upload_single_pdf",
     apiRaised |-> outcome # "success",
     printedExc |-> outcome # "success",
     returned |-> IF outcome = "success" THEN "result" ELSE "failed_result"]

\* the value upload_single_pdf returns
UploadSinglePdfResult(file_path, outcome) ==
    LET file_name == Basename(file_path) IN
    IF outcome = "success"
    THEN [file |-> file_name, status |-> "success"]
    ELSE [file |-> file_name, status |-> "failed", error |-> outcome]

----------------------------------------------------------------------------
(* The pool of the upload                                                  *)

\* a pool that starts a thread for every task
PoolUnbounded(running, size) == TRUE

\* a ThreadPoolExecutor runs a pending task only on one of its workers
PoolHasFreeWorker(running, size) == running < size

\* the tasks that hold a worker
UpRunning == {f \in FileIdx : upFut[f] \in {"running", "blocked"}}

\* executor.submit(self.upload_single_pdf, file_path, vector_store_id),
\* one file of the comprehension at a time
UploadSubmit ==
    /\ upPc = "submit"
    /\ \E f \in FileIdx :
        /\ upFut[f] = "none"
        /\ \A g \in FileIdx : g < f => upFut[g] # "none"
        /\ upFut' = [upFut EXCEPT ![f] = "pending"]
    /\ UNCHANGED <<listing, pdf_files, upPc, upResult, upCalls, apiLog,
                   upSpace, stats, upReturn>>
    /\ UNCHANGED mainVars
    /\ UNCHANGED evalVars
    /\ UNCHANGED extVars

\* all files submitted: the loop over as_completed(futures) begins
UploadSubmitted ==
    /\ upPc = "submit"
    /\ \A f \in FileIdx : upFut[f] # "none"
    /\ upPc' = "collect"
    /\ UNCHANGED <<listing, pdf_files, upFut, upResult, upCalls, apiLog,
                   upSpace, stats, upReturn>>
    /\ UNCHANGED mainVars
    /\ UNCHANGED evalVars
    /\ UNCHANGED extVars

\* a free worker of the pool takes the oldest pending upload
UploadStart(f) ==
    /\ upFut[f] = "pending"
    /\ \A g \in FileIdx : g < f => upFut[g] # "pending"
    /\ PoolHasFreeWorker(Cardinality(UpRunning), max_workers)
    /\ upFut' = [upFut EXCEPT ![f] = "running"]
    /\ upCalls' = [upCalls EXCEPT ![f] = @ + 1]
    /\ UNCHANGED <<listing, pdf_files, upPc, upResult, apiLog, upSpace,
                   stats, upReturn>>
    /\ UNCHANGED mainVars
    /\ UNCHANGED evalVars
    /\ UNCHANGED extVars

\* an upload that is queued again when it fails
UploadSinglePdfRetry(f) ==
    /\ upFut[f] = "running"
    /\ \E outcome \in upSpace[f] :
        /\ apiLog' = [apiLog EXCEPT ![f] = @ \o
                          UploadApiCalls(pdf_files[f], vector_store_id, outcome)]
        /\ upResult' = [upResult EXCEPT
                          ![f] = UploadSinglePdfResult(pdf_files[f], outcome)]
        /\ printed' = IF outcome = "success"
                      THEN printed
                      ELSE printed \cup {"Error with file"}
        /\ calls' = calls \cup {CallOfUpload(outcome)}
        /\ upFut' = [upFut EXCEPT
                       ![f] = IF outcome = "success" THEN "done" ELSE "pending"]
    /\ UNCHANGED <<listing, pdf_files, upPc, upCalls, upSpace, stats,
                   upReturn>>
    /\ UNCHANGED <<action, argsOk, mainPc, exc>>
    /\ UNCHANGED evalVars
    /\ UNCHANGED extVars

\* a task that counts its own result in the stats dictionary
UploadSinglePdfCounting(f) ==
    /\ upFut[f] = "running"
    /\ \E outcome \in upSpace[f] :
        /\ apiLog' = [apiLog EXCEPT ![f] = @ \o
                          UploadApiCalls(pdf_files[f], vector_store_id, outcome)]
        /\ upResult' = [upResult EXCEPT
                          ![f] = UploadSinglePdfResult(pdf_files[f], outcome)]
        /\ printed' = IF outcome = "success"
                      THEN printed
                      ELSE printed \cup {"Error with file"}
        /\ calls' = calls \cup {CallOfUpload(outcome)}
        /\ stats' = IF outcome = "success"
                    THEN [stats EXCEPT !.successful_uploads = @ + 1]
                    ELSE [stats EXCEPT !.failed_uploads = @ + 1]
    /\ upFut' = [upFut EXCEPT ![f] = "done"]
    /\ UNCHANGED <<listing, pdf_files, upPc, upCalls, upSpace, upReturn>>
    /\ UNCHANGED <<action, argsOk, mainPc, exc>>
    /\ UNCHANGED evalVars
    /\ UNCHANGED extVars

\* upload_single_pdf runs to its return in its worker
UploadSinglePdf(f) ==
    /\ upFut[f] = "running"
    /\ \E outcome \in upSpace[f] :
        /\ apiLog' = [apiLog EXCEPT ![f] = @ \o
                          UploadApiCalls(pdf_files[f], vector_store_id, outcome)]
        /\ upResult' = [upResult EXCEPT
                          ![f] = UploadSinglePdfResult(pdf_files[f], outcome)]
        /\ printed' = IF outcome = "success"
                      THEN printed
                      ELSE printed \cup {"Error with file"}
        /\ calls' = calls \cup {CallOfUpload(outcome)}
    /\ upFut' = [upFut EXCEPT ![f] = "done"]
    /\ UNCHANGED <<listing, pdf_files, upPc, upCalls, upSpace, stats,
                   upReturn>>
    /\ UNCHANGED <<action, argsOk, mainPc, exc>>
    /\ UNCHANGED evalVars
    /\ UNCHANGED extVars

\* an API call of a running upload never answers: files.create and
\* vector_stores.files.create are called without a timeout of this code, the
\* task keeps its worker and its future is never done
UploadBlock(f) ==
    /\ upFut[f] = "running"
    /\ upFut' = [upFut EXCEPT ![f] = "blocked"]
    /\ UNCHANGED <<listing, pdf_files, upPc, upResult, upCalls, apiLog,
                   upSpace, stats, upReturn>>
    /\ UNCHANGED mainVars
    /\ UNCHANGED evalVars
    /\ UNCHANGED extVars

\* a loop body that does not count the failed uploads
CollectStatsSuccessOnly(st, result) ==
    IF result.status = "success"
    THEN [st EXCEPT !.successful_uploads = @ + 1]
    ELSE [st EXCEPT !.errors = Append(@, result)]

\* a loop body that keeps only the error of the first failure it meets
CollectStatsFirstErrorOnly(st, result) ==
    IF result.status = "success"
    THEN [st EXCEPT !.successful_uploads = @ + 1]
    ELSE [st EXCEPT !.failed_uploads = @ + 1,
                    !.errors = IF @ = <<>> THEN <<result>> ELSE @]

\* a loop body that lists every result, the successful ones too
CollectStatsAllResults(st, result) ==
    IF result.status = "success"
    THEN [st EXCEPT !.successful_uploads = @ + 1,
                    !.errors = Append(@, result)]
    ELSE [st EXCEPT !.failed_uploads = @ + 1,
                    !.errors = Append(@, result)]

\* the body of the loop over as_completed, for one finished future
CollectStats(st, result) ==
    IF result.status = "success"
    THEN [st EXCEPT !.successful_uploads = @ + 1]
    ELSE [st EXCEPT !.failed_uploads = @ + 1,
                    !.errors = Append(@, result)]

UploadCollect(f) ==
    /\ upPc = "collect"
    /\ upFut[f] = "done"
    /\ upFut' = [upFut EXCEPT ![f] = "collected"]
    /\ stats' = CollectStats(stats, upResult[f])
    /\ UNCHANGED <<listing, pdf_files, upPc, upResult, upCalls, apiLog,
                   upSpace, upReturn>>
    /\ UNCHANGED mainVars
    /\ UNCHANGED evalVars
    /\ UNCHANGED extVars

\* a return that gives up on the tasks that do not answer
UploadReturnAfterTimeout ==
    /\ upPc = "collect"
    /\ \A f \in FileIdx : upFut[f] \in {"collected", "blocked"}
    /\ upPc' = "returned"
    /\ upReturn' = stats
    /\ mainPc' = IF command = "none" THEN "exit" ELSE mainPc
    /\ UNCHANGED <<listing, pdf_files, upFut, upResult, upCalls, apiLog,
                   upSpace, stats>>
    /\ UNCHANGED <<action, argsOk, exc, printed, calls>>
    /\ UNCHANGED evalVars
    /\ UNCHANGED extVars

\* as_completed is exhausted, the pool is shut down, stats is returned
UploadReturn ==
    /\ upPc = "collect"
    /\ \A f \in FileIdx : upFut[f] = "collected"
    /\ upPc' = "returned"
    /\ upReturn' = stats
    /\ mainPc' = IF command = "none" THEN "exit" ELSE mainPc
    /\ UNCHANGED <<listing, pdf_files, upFut, upResult, upCalls, apiLog,
                   upSpace, stats>>
    /\ UNCHANGED <<action, argsOk, exc, printed, calls>>
    /\ UNCHANGED evalVars
    /\ UNCHANGED extVars

----------------------------------------------------------------------------
(* Fractions: the quotients the evaluation computes, kept exact            *)

Frac(n, d) == <<n, d>>
FracZero == Frac(0, 1)
FracAdd(a, b) == Frac(a[1] * b[2] + b[1] * a[2], a[2] * b[2])
FracDivInt(a, n) == Frac(a[1], a[2] * n)
FracEq(a, b) == a[1] * b[2] = b[1] * a[2]

\* sum(list) over a list of fractions
RECURSIVE FracSum(_)
FracSum(s) == IF s = <<>> THEN FracZero ELSE FracAdd(Head(s), FracSum(Tail(s)))

----------------------------------------------------------------------------
(* evaluate_retrieval                                                      *)

\* the file names the store can return
RetrievedNames == {EntryName(1, PDF_EXT), EntryName(2, PDF_EXT)}

SeqsUpTo(S, n) == UNION {[1..m -> S] : m \in 0..n}

\* what one responses.create call can do: raise, answer without
\* annotations, or answer with a list of annotated file names
ApiRaises == [kind |-> "raises", files |-> <<>>]
NoAnnotations == [kind |-> "no_annotations", files |-> <<>>]
Annotated(files) == [kind |-> "annotations", files |-> files]
AllResponses ==
    {ApiRaises, NoAnnotations}
        \cup {Annotated(s) : s \in SeqsUpTo(RetrievedNames, MaxRetrieved)}

NoResponse == [kind |-> "none", files |-> <<>>]
NoEvResult == [correct |-> FALSE, rr |-> FracZero, ap |-> FracZero,
               valid |-> FALSE]
NoMetrics == [returned |-> FALSE]

QueryIdx == DOMAIN evFut

\* ThreadPoolExecutor() without max_workers: min(32, cpu_count + 4) workers
default_max_workers(cpus) == Min(32, cpus + 4)

\* rows.append({"query": query, "_id": filename.replace(".pdf", "")})
RowsOf(qd) ==
    [i \in 1..Len(qd) |->
        [query |-> qd[i].query, _id |-> Replace(qd[i].filename, PDF_EXT, <<>>)]]

\* expected_filename = row['_id'] + '.pdf'
ExpectedFilename(row) == row._id \o PDF_EXT

\* the annotations, not cut at k
TopKUncut(annotations, kk) == annotations

\* annotations[:k]
TopK(annotations, kk) == SubSeq(annotations, 1, Min(kk, Len(annotations)))

\* the 0-based position of the last occurrence
ListIndexLast(s, x) ==
    (CHOOSE i \in 1..Len(s) :
        s[i] = x /\ \A j \in (i + 1)..Len(s) : s[j] # x) - 1

\* retrieved_files.index(expected_filename), 0-based, of a member
ListIndex(s, x) ==
    (CHOOSE i \in 1..Len(s) : s[i] = x /\ \A j \in 1..(i - 1) : s[j] # x) - 1

InList(s, x) == \E i \in 1..Len(s) : s[i] = x

\* rr of process_query
ReciprocalRank(retrieved_files, expected_filename) ==
    IF InList(retrieved_files, expected_filename)
    THEN LET rank == ListIndex(retrieved_files, expected_filename) + 1
         IN Frac(1, rank)
    ELSE FracZero

\* the precisions list of process_query, built left to right from position i
RECURSIVE Precisions(_, _, _, _)
Precisions(retrieved_files, expected_filename, i, num_relevant) ==
    IF i > Len(retrieved_files)
    THEN <<>>
    ELSE IF retrieved_files[i] = expected_filename
         THEN <<Frac(num_relevant + 1, i)>>
                \o Precisions(retrieved_files, expected_filename, i + 1,
                              num_relevant + 1)
         ELSE Precisions(retrieved_files, expected_filename, i + 1,
                         num_relevant)

\* avg_precision of process_query
AveragePrecision(retrieved_files, expected_filename) ==
    LET precisions == Precisions(retrieved_files, expected_filename, 1, 0)
    IN IF precisions # <<>>
       THEN FracDivInt(FracSum(precisions), Len(precisions))
       ELSE FracZero

\* what process_query returns for a response that did not raise
ProcessQuery(row, response, kk) ==
    IF response.kind = "no_annotations"
    THEN [correct |-> FALSE, rr |-> FracZero, ap |-> FracZero, valid |-> TRUE]
    ELSE LET expected_filename == ExpectedFilename(row)
             retrieved_files == TopK(response.files, kk)
         IN [correct |-> InList(retrieved_files, expected_filename),
             rr |-> ReciprocalRank(retrieved_files, expected_filename),
             ap |-> AveragePrecision(retrieved_files, expected_filename),
             valid |-> TRUE]

\* the finished call of process_query, as the caller sees it
CallOfProcessQuery(response) ==
    [method |-> "process_query",
     apiRaised |-> response.kind = "raises",
     printedExc |-> FALSE,
     returned |-> IF response.kind = "raises" THEN "propagated" ELSE "result"]

\* the loop over results and the four quotients
RECURSIVE CountCorrect(_)
CountCorrect(rs) ==
    IF rs = <<>> THEN 0
    ELSE (IF Head(rs).correct THEN 1 ELSE 0) + CountCorrect(Tail(rs))

\* a precision that divides the hits by the k names retrieved per query
AggregateTruePrecision(rs, total_queries) ==
    LET correct_retrievals_at_k == CountCorrect(rs)
        reciprocal_ranks == [i \in 1..Len(rs) |-> rs[i].rr]
        average_precisions == [i \in 1..Len(rs) |-> rs[i].ap]
        recall_at_k == Frac(correct_retrievals_at_k, total_queries)
    IN [returned |-> TRUE,
        recall |-> recall_at_k,
        precision |-> Frac(correct_retrievals_at_k, total_queries * k),
        mrr |-> FracDivInt(FracSum(reciprocal_ranks), total_queries),
        map |-> FracDivInt(FracSum(average_precisions), total_queries)]

\* quotients over the queries that had annotations only
AggregateAnnotatedOnly(rs, total_queries) ==
    LET annotated == Cardinality({q \in QueryIdx :
                                    evResponse[q].kind = "annotations"})
        correct_retrievals_at_k == CountCorrect(rs)
        reciprocal_ranks == [i \in 1..Len(rs) |-> rs[i].rr]
        average_precisions == [i \in 1..Len(rs) |-> rs[i].ap]
        recall_at_k == Frac(correct_retrievals_at_k, annotated)
    IN [returned |-> TRUE,
        recall |-> recall_at_k,
        precision |-> recall_at_k,
        mrr |-> FracDivInt(FracSum(reciprocal_ranks), annotated),
        map |-> FracDivInt(FracSum(average_precisions), annotated)]

Aggregate(rs, total_queries) ==
    LET correct_retrievals_at_k == CountCorrect(rs)
        reciprocal_ranks == [i \in 1..Len(rs) |-> rs[i].rr]
        average_precisions == [i \in 1..Len(rs) |-> rs[i].ap]
        recall_at_k == Frac(correct_retrievals_at_k, total_queries)
    IN [returned |-> TRUE,
        recall |-> recall_at_k,
        precision |-> recall_at_k,
        mrr |-> FracDivInt(FracSum(reciprocal_ranks), total_queries),
        map |-> FracDivInt(FracSum(average_precisions), total_queries)]

EvRunning == {q \in QueryIdx : evFut[q] = "running"}

\* an aggregation that starts with the first result
SomeResultsListed(rs, rws) == Len(rs) >= 1

\* list(...) has consumed the iterator of executor.map
AllResultsListed(rs, rws) == Len(rs) = Len(rws)

\* executor.map submits every row before it yields a result
EvalSubmit ==
    /\ evPc = "submit"
    /\ \E q \in QueryIdx :
        /\ evFut[q] = "none"
        /\ \A p \in QueryIdx : p < q => evFut[p] # "none"
        /\ evFut' = [evFut EXCEPT ![q] = "pending"]
    /\ UNCHANGED <<questions_dict, k, cpu_count, rows, evPc, evResponse,
                   evResult, results, metrics, evSpace>>
    /\ UNCHANGED mainVars
    /\ UNCHANGED uploadVars
    /\ UNCHANGED extVars

EvalSubmitted ==
    /\ evPc = "submit"
    /\ \A q \in QueryIdx : evFut[q] # "none"
    /\ evPc' = "collect"
    /\ UNCHANGED <<questions_dict, k, cpu_count, rows, evFut, evResponse,
                   evResult, results, metrics, evSpace>>
    /\ UNCHANGED mainVars
    /\ UNCHANGED uploadVars
    /\ UNCHANGED extVars

\* a free worker of the pool takes the oldest pending query
EvalStart(q) ==
    /\ evFut[q] = "pending"
    /\ \A p \in QueryIdx : p < q => evFut[p] # "pending"
    /\ PoolHasFreeWorker(Cardinality(EvRunning), default_max_workers(cpu_count))
    /\ evFut' = [evFut EXCEPT ![q] = "running"]
    /\ UNCHANGED <<questions_dict, k, cpu_count, rows, evPc, evResponse,
                   evResult, results, metrics, evSpace>>
    /\ UNCHANGED mainVars
    /\ UNCHANGED uploadVars
    /\ UNCHANGED extVars

\* process_query runs in its worker, to its return or to the exception
EvalProcessQuery(q) ==
    /\ evFut[q] = "running"
    /\ \E response \in evSpace :
        /\ evResponse' = [evResponse EXCEPT ![q] = response]
        /\ calls' = calls \cup {CallOfProcessQuery(response)}
        /\ IF response.kind = "raises"
           THEN /\ evFut' = [evFut EXCEPT ![q] = "failed"]
                /\ UNCHANGED <<evResult, printed>>
           ELSE /\ evFut' = [evFut EXCEPT ![q] = "done"]
                /\ evResult' = [evResult EXCEPT
                                  ![q] = ProcessQuery(rows[q], response, k)]
                /\ printed' = IF response.kind = "no_annotations"
                              THEN printed \cup {"No annotations for query"}
                              ELSE printed
    /\ UNCHANGED <<questions_dict, k, cpu_count, rows, evPc, results, metrics,
                   evSpace>>
    /\ UNCHANGED <<action, argsOk, mainPc, exc>>
    /\ UNCHANGED uploadVars
    /\ UNCHANGED extVars

\* list(executor.map(...)) takes the next result, in the order of the rows;
\* the exception of a failed query is raised here, and the iterator cancels
\* the futures that have not started
EvalCollect ==
    /\ evPc = "collect"
    /\ Len(results) < Len(rows)
    /\ LET q == Len(results) + 1 IN
        \/ /\ evFut[q] = "done"
           /\ results' = Append(results, evResult[q])
           /\ UNCHANGED <<evFut, evPc>>
        \/ /\ evFut[q] = "failed"
           /\ evFut' = [p \in QueryIdx |->
                          IF evFut[p] = "pending" THEN "cancelled" ELSE evFut[p]]
           /\ evPc' = "unwind"
           /\ UNCHANGED results
    /\ UNCHANGED <<questions_dict, k, cpu_count, rows, evResponse, evResult,
                   metrics, evSpace>>
    /\ UNCHANGED mainVars
    /\ UNCHANGED uploadVars
    /\ UNCHANGED extVars

\* the with block waits for the running queries, then the exception leaves
\* evaluate_retrieval and main
EvalRaise ==
    /\ evPc = "unwind"
    /\ EvRunning = {}
    /\ evPc' = "raised"
    /\ mainPc' = "crash"
    /\ exc' = "APIError"
    /\ UNCHANGED <<questions_dict, k, cpu_count, rows, evFut, evResponse,
                   evResult, results, metrics, evSpace>>
    /\ UNCHANGED <<action, argsOk, printed, calls>>
    /\ UNCHANGED uploadVars
    /\ UNCHANGED extVars

\* an aggregation that answers zeros when there is no query
EvalAggregateGuarded ==
    /\ evPc = "collect"
    /\ AllResultsListed(results, rows)
    /\ LET total_queries == Len(rows) IN
       /\ evPc' = "returned"
       /\ metrics' = IF total_queries = 0
                     THEN [returned |-> TRUE, recall |-> FracZero,
                           precision |-> FracZero, mrr |-> FracZero,
                           map |-> FracZero]
                     ELSE Aggregate(results, total_queries)
       /\ mainPc' = "exit"
       /\ printed' = printed \cup {"Metrics"}
       /\ UNCHANGED exc
    /\ UNCHANGED <<questions_dict, k, cpu_count, rows, evFut, evResponse,
                   evResult, results, evSpace>>
    /\ UNCHANGED <<action, argsOk, calls>>
    /\ UNCHANGED uploadVars
    /\ UNCHANGED extVars

\* every result is in the list: the metrics are computed and returned, and
\* main prints them
EvalAggregate ==
    /\ evPc = "collect"
    /\ AllResultsListed(results, rows)
    /\ LET total_queries == Len(rows) IN
       IF total_queries = 0
       THEN /\ evPc' = "raised"
            /\ mainPc' = "crash"
            /\ exc' = "ZeroDivisionError"
            /\ UNCHANGED <<metrics, printed>>
       ELSE /\ evPc' = "returned"
            /\ metrics' = Aggregate(results, total_queries)
            /\ mainPc' = "exit"
            /\ printed' = printed \cup {"Metrics"}
            /\ UNCHANGED exc
    /\ UNCHANGED <<questions_dict, k, cpu_count, rows, evFut, evResponse,
                   evResult, results, evSpace>>
    /\ UNCHANGED <<action, argsOk, calls>>
    /\ UNCHANGED uploadVars
    /\ UNCHANGED extVars

----------------------------------------------------------------------------
(* The methods that make one API call                                      *)

ApiOutcomes == {"ok", "raises"}

\* create_vector_store: the details on success, {} on an exception
CallOfCreateVectorStore(api) ==
    [method |-> "create_vector_store",
     apiRaised |-> api = "raises",
     printedExc |-> api = "raises",
     returned |-> IF api = "raises" THEN "{}" ELSE "details"]

\* vector_search: the search results on success, None on an exception
CallOfVectorSearch(api) ==
    [method |-> "vector_search",
     apiRaised |-> api = "raises",
     printedExc |-> api = "raises",
     returned |-> IF api = "raises" THEN "None" ELSE "search_results"]

\* llm_integrated_search: files_used and response on success, a dictionary
\* with the error on an exception
CallOfLlmIntegratedSearch(api) ==
    [method |-> "llm_integrated_search",
     apiRaised |-> api = "raises",
     printedExc |-> api = "raises",
     returned |-> IF api = "raises" THEN "error_dict" ELSE "result"]

\* generate_questions: responses.create is called outside any try
CallOfGenerateQuestions(api) ==
    [method |-> "generate_questions",
     apiRaised |-> api = "raises",
     printedExc |-> FALSE,
     returned |-> IF api = "raises" THEN "propagated" ELSE "question"]

----------------------------------------------------------------------------
(* The answers of the remote API and what the methods return               *)

\* the arguments of the command line
STORE_NAME == "store_name_arg"
STORE_ID == "vs_arg"
QUERY == "query_arg"

NoneValue == [none |-> TRUE]
EmptyDict == [empty |-> TRUE]
NoReturn == [unset |-> TRUE]

ApiException == [kind |-> "raises"]
Raised(answer) == answer.kind = "raises"

\* the ids the API gives to new vector stores
StoreIds == {"vs_1", "vs_2"}

\* what vector_stores.create and vector_stores.retrieve may answer
VectorStoreAnswers(ids, name) ==
    {ApiException} \cup
    {[kind |-> "vector_store", id |-> id, name |-> name, created_at |-> 1,
      file_counts |-> [completed |-> c, total |-> 1]] :
        id \in ids, c \in 0..1}

VectorStoresCreate(store_name, answer) ==
    [api |-> "vector_stores.create", name |-> store_name, answer |-> answer]

\* a create_vector_store that reports the files in the store, completed or not
CreateVectorStoreTotal(answer) ==
    IF Raised(answer)
    THEN EmptyDict
    ELSE [id |-> answer.id,
          name |-> answer.name,
          created_at |-> answer.created_at,
          file_count |-> answer.file_counts.total]

\* create_vector_store: the details of the answer, {} on an exception
CreateVectorStore(answer) ==
    IF Raised(answer)
    THEN EmptyDict
    ELSE [id |-> answer.id,
          name |-> answer.name,
          created_at |-> answer.created_at,
          file_count |-> answer.file_counts.completed]

\* what vector_stores.search may answer to a query
SearchAnswers ==
    {ApiException} \cup
    {[kind |-> "search_results", data |-> d] :
        d \in SeqsUpTo(RetrievedNames, MaxK)}

VectorStoresSearch(vsid, query, answer) ==
    [api |-> "vector_stores.search", vector_store_id |-> vsid,
     query |-> query, answer |-> answer]

\* a vector_search that keeps the best result only
VectorSearchBest(answer) ==
    IF Raised(answer)
    THEN NoneValue
    ELSE [answer EXCEPT !.data = SubSeq(@, 1, Min(1, Len(@)))]

\* vector_search: the answer itself, None on an exception
VectorSearch(answer) ==
    IF Raised(answer) THEN NoneValue ELSE answer

ResponsesCreate(vsid, query, answer) ==
    [api |-> "responses.create", input |-> query,
     vector_store_ids |-> <<vsid>>, answer |-> answer]

\* the text of the message the responses API answers with
ResponseText(answer) == <<"text", ToString(Len(answer.files))>>

\* list(set(...)): the elements of the set, once each, in some order
ListsOfSet(S) ==
    {l \in [1..Cardinality(S) -> S] : \A x \in S : \E i \in DOMAIN l : l[i] = x}

\* an llm_integrated_search that lists the file of every annotation
LlmIntegratedSearchList(answer, files_used) ==
    IF Raised(answer)
    THEN [error |-> "str(e)"]
    ELSE [files_used |-> answer.files, response |-> ResponseText(answer)]

\* llm_integrated_search: the files of the annotations as list(set(...)) gave
\* them and the text, {"error": ...} on an exception
LlmIntegratedSearch(answer, files_used) ==
    IF Raised(answer)
    THEN [error |-> "str(e)"]
    ELSE [files_used |-> files_used, response |-> ResponseText(answer)]

\* retrieved_files of llm_integrated_search
RetrievedFiles(answer) == {answer.files[i] : i \in DOMAIN answer.files}

----------------------------------------------------------------------------
(* main()                                                                  *)

\* pdf_files of upload_pdf_files_to_vector_store and of generate_questions
PdfFilesOf(dir) ==
    LET names == SelectSeq(dir, IsPdfName)
    IN [i \in 1..Len(names) |-> PathJoin("dir_pdfs", names[i])]

\* a required argument is missing: main prints the error and returns
MainArgsMissing ==
    /\ mainPc = "start"
    /\ ~argsOk
    /\ mainPc' = "exit"
    /\ printed' = printed \cup {"Error: required argument"}
    /\ UNCHANGED <<action, argsOk, exc, calls>>
    /\ UNCHANGED uploadVars
    /\ UNCHANGED evalVars
    /\ UNCHANGED extVars

\* action == "create_store"
MainCreateStore ==
    /\ mainPc = "start"
    /\ argsOk
    /\ action = "create_store"
    /\ \E answer \in VectorStoreAnswers(StoreIds, STORE_NAME) :
        /\ apiTrace' = Append(apiTrace, VectorStoresCreate(STORE_NAME, answer))
        /\ ret' = CreateVectorStore(answer)
        /\ calls' = calls \cup
              {CallOfCreateVectorStore(IF Raised(answer) THEN "raises"
                                                         ELSE "ok")}
        /\ printed' = printed \cup
              {IF Raised(answer) THEN "Error creating vector store"
                                 ELSE "Vector store created"}
    /\ mainPc' = "exit"
    /\ UNCHANGED <<action, argsOk, exc>>
    /\ UNCHANGED uploadVars
    /\ UNCHANGED evalVars
    /\ UNCHANGED <<vector_store_id, ctorVars, cliVars, vizVars>>

\* upload_pdf_files_to_vector_store up to the creation of the pool
UploadEnter(vsid, dir) ==
    /\ vector_store_id' = vsid
    /\ pdf_files' = PdfFilesOf(dir)
    /\ stats' = [total_files |-> Len(PdfFilesOf(dir)),
                 successful_uploads |-> 0,
                 failed_uploads |-> 0,
                 errors |-> <<>>]
    /\ upFut' = [f \in 1..Len(PdfFilesOf(dir)) |-> "none"]
    /\ upResult' = [f \in 1..Len(PdfFilesOf(dir)) |-> NoResult]
    /\ upCalls' = [f \in 1..Len(PdfFilesOf(dir)) |-> 0]
    /\ apiLog' = [f \in 1..Len(PdfFilesOf(dir)) |-> <<>>]
    /\ upPc' = "submit"
    /\ printed' = printed \cup {"PDF files to process"}
    /\ UNCHANGED <<listing, upSpace, upReturn>>

\* action == "upload": the upload is entered
MainUpload ==
    /\ mainPc = "start"
    /\ argsOk
    /\ action = "upload"
    /\ mainPc' = "in_call"
    /\ UploadEnter(STORE_ID, listing)
    /\ UNCHANGED <<action, argsOk, exc, calls>>
    /\ UNCHANGED evalVars
    /\ UNCHANGED <<callVars, ctorVars, cliVars, vizVars>>

\* action == "search": results.data is read whatever vector_search returned
MainSearch ==
    /\ mainPc = "start"
    /\ argsOk
    /\ action = "search"
    /\ \E answer \in SearchAnswers :
        LET call == CallOfVectorSearch(IF Raised(answer) THEN "raises"
                                                         ELSE "ok") IN
        /\ apiTrace' = Append(apiTrace,
                              VectorStoresSearch(STORE_ID, QUERY, answer))
        /\ ret' = VectorSearch(answer)
        /\ calls' = calls \cup {call}
        /\ IF call.returned = "None"
           THEN /\ printed' = printed \cup {"Error searching vector store"}
                /\ mainPc' = "crash"
                /\ exc' = "AttributeError"
           ELSE /\ printed' = printed \cup {"Result"}
                /\ mainPc' = "exit"
                /\ UNCHANGED exc
    /\ UNCHANGED <<action, argsOk>>
    /\ UNCHANGED uploadVars
    /\ UNCHANGED evalVars
    /\ UNCHANGED <<vector_store_id, ctorVars, cliVars, vizVars>>

\* action == "llm_search": response.get(...) with defaults, no check
MainLlmSearch ==
    /\ mainPc = "start"
    /\ argsOk
    /\ action = "llm_search"
    /\ \E answer \in AllResponses :
       \E files_used \in ListsOfSet(RetrievedFiles(answer)) :
        /\ apiTrace' = Append(apiTrace,
                              ResponsesCreate(STORE_ID, QUERY, answer))
        /\ ret' = LlmIntegratedSearch(answer, files_used)
        /\ calls' = calls \cup
              {CallOfLlmIntegratedSearch(IF Raised(answer) THEN "raises"
                                                           ELSE "ok")}
        /\ printed' = printed \cup
              (IF Raised(answer) THEN {"Error with LLM integrated search"}
                                 ELSE {})
              \cup {"Files used", "Response"}
    /\ mainPc' = "exit"
    /\ UNCHANGED <<action, argsOk, exc>>
    /\ UNCHANGED uploadVars
    /\ UNCHANGED evalVars
    /\ UNCHANGED <<vector_store_id, ctorVars, cliVars, vizVars>>

\* action == "generate_questions": the PDF files of the directory are listed
MainGenerateQuestions ==
    /\ mainPc = "start"
    /\ argsOk
    /\ action = "generate_questions"
    /\ mainPc' = "in_call"
    /\ pdf_files' = PdfFilesOf(listing)
    /\ questions_dict' = <<>>
    /\ UNCHANGED <<action, argsOk, exc, printed, calls>>
    /\ UNCHANGED <<listing, upPc, upFut, upResult, upCalls, apiLog, upSpace,
                   stats, upReturn>>
    /\ UNCHANGED <<k, cpu_count, rows, evPc, evFut, evResponse, evResult,
                   results, metrics, evSpace>>
    /\ UNCHANGED extVars

\* one turn of the loop: generate_questions(pdf_path) for the next file
GenerateQuestions ==
    /\ mainPc = "in_call"
    /\ action = "generate_questions"
    /\ Len(questions_dict) < Len(pdf_files)
    /\ LET i == Len(questions_dict) + 1 IN
       \E readFails \in BOOLEAN, api \in ApiOutcomes :
        /\ calls' = calls \cup {CallOfGenerateQuestions(api)}
        /\ printed' = IF readFails THEN printed \cup {"Error reading"}
                                   ELSE printed
        /\ IF api = "raises"
           THEN /\ mainPc' = "crash"
                /\ exc' = "APIError"
                /\ UNCHANGED questions_dict
           ELSE /\ questions_dict' =
                      Append(questions_dict,
                             [filename |-> Basename(pdf_files[i]),
                              query |-> <<"q", ToString(i)>>])
                /\ UNCHANGED <<mainPc, exc>>
    /\ UNCHANGED <<action, argsOk>>
    /\ UNCHANGED uploadVars
    /\ UNCHANGED <<k, cpu_count, rows, evPc, evFut, evResponse, evResult,
                   results, metrics, evSpace>>
    /\ UNCHANGED extVars

\* the loop is over: the questions are written out
GenerateQuestionsOutput ==
    /\ mainPc = "in_call"
    /\ action = "generate_questions"
    /\ Len(questions_dict) = Len(pdf_files)
    /\ mainPc' = "exit"
    /\ printed' = printed \cup {"questions_dict"}
    /\ UNCHANGED <<action, argsOk, exc, calls>>
    /\ UNCHANGED uploadVars
    /\ UNCHANGED evalVars
    /\ UNCHANGED extVars

\* action == "evaluate": evaluate_retrieval is entered and builds its rows
MainEvaluate ==
    /\ mainPc = "start"
    /\ argsOk
    /\ action = "evaluate"
    /\ mainPc' = "in_call"
    /\ rows' = RowsOf(questions_dict)
    /\ evFut' = [q \in 1..Len(questions_dict) |-> "none"]
    /\ evResponse' = [q \in 1..Len(questions_dict) |-> NoResponse]
    /\ evResult' = [q \in 1..Len(questions_dict) |-> NoEvResult]
    /\ results' = <<>>
    /\ evPc' = "submit"
    /\ UNCHANGED <<questions_dict, k, cpu_count, metrics, evSpace>>
    /\ UNCHANGED <<action, argsOk, exc, printed, calls>>
    /\ UNCHANGED uploadVars
    /\ UNCHANGED extVars

----------------------------------------------------------------------------
(* The constructors of OpenAIFileSearch and VectorStoreVisualizer          *)

\* the api_key argument, "None" when it is not given
KeyArguments == {"None", "", "sk-arg"}
\* os.getenv('OPENAI_API_KEY'), "None" when the variable is not set
KeyEnvironments == {"None", "", "sk-env"}

\* the truth value Python gives to a string or None
Truthy(s) == s \notin {"None", ""}

\* a constructor that prefers the environment to its argument
ApiKeyOfEnvFirst(key, env) == IF Truthy(env) THEN env ELSE key

\* api_key or os.getenv('OPENAI_API_KEY')
ApiKeyOf(key, env) == IF Truthy(key) THEN key ELSE env

NoClient == [class |-> "none", created |-> FALSE, api_key |-> "None"]

\* __init__: self.api_key, then ValueError or self.client
Constructed(class, key, env) ==
    IF Truthy(ApiKeyOf(key, env))
    THEN [class |-> class, created |-> TRUE, api_key |-> ApiKeyOf(key, env)]
    ELSE [class |-> class, created |-> FALSE, api_key |-> "None"]

----------------------------------------------------------------------------
(* VectorStoreVisualizer: the stages of the pipeline                       *)

Stages == <<"fetch", "scale", "reduce", "cluster", "table", "plot">>

\* the metadata a stored document may carry, as (key, value) pairs
Metadatas == {{},
              {<<"filename", <<"m">> \o PDF_EXT>>},
              {<<"author", <<"a">>>>}}

\* what a search result carries as its embedding: values, only a score, or
\* neither
EmbeddingKinds == {"values", "score", "nothing"}

\* the results the store may answer the embedding query with
SearchResults(n) ==
    {[i \in 1..n |-> [id |-> <<"doc", ToString(i)>>,
                      filename |-> EntryName(i, PDF_EXT),
                      embedding |-> kind[i],
                      metadata |-> meta[i]]] :
        kind \in [1..n -> EmbeddingKinds], meta \in [1..n -> Metadatas]}

EmbeddingAnswers ==
    {ApiException} \cup
    {[kind |-> "search_results", data |-> d] :
        d \in UNION {SearchResults(n) : n \in 0..MaxDocs}}

\* get_vector_store_info: the details of the store, {} on an exception
GetVectorStoreInfo(answer) ==
    IF Raised(answer)
    THEN EmptyDict
    ELSE [id |-> answer.id,
          name |-> answer.name,
          created_at |-> answer.created_at,
          file_count |-> answer.file_counts.completed]

\* fetch_embeddings: the results that have an embedding or a score, [] on an
\* exception
FetchEmbeddings(answer) ==
    IF Raised(answer)
    THEN <<>>
    ELSE SelectSeq(answer.data, LAMBDA result : result.embedding # "nothing")

\* len(item['embedding']) differs between two entries
Ragged(data) ==
    \E i, j \in DOMAIN data : data[i].embedding # data[j].embedding

\* np.array(...) and StandardScaler().fit_transform(...): an exception when
\* the rows differ in length or hold a value that is not finite
ScaleRaises(data, finite) == Ragged(data) \/ ~finite

\* a value that is not None
Some(v) == [none |-> FALSE, value |-> v]

\* a caller that takes every result for a success
NeverNone(x) == FALSE

\* `x is None`
IsNone(x) == x = NoneValue

\* reduce_dimensions: one point per row, None on an exception
ReduceDimensions(data, raises) ==
    IF raises
    THEN NoneValue
    ELSE Some([i \in DOMAIN data |-> <<"point", ToString(i)>>])

\* the labels HDBSCAN may give to n points
ClusterLabels(n) == [1..n -> {-1, 0}]

\* apply_clustering: one label per point, None on an exception
ApplyClustering(reduced, labels, raises) ==
    IF raises \/ reduced = NoneValue THEN NoneValue ELSE Some(labels)

\* df.at[i, key] = value when the column exists already
Cell(entry, col) ==
    IF \E kv \in entry.metadata : kv[1] = col
    THEN (CHOOSE kv \in entry.metadata : kv[1] = col)[2]
    ELSE entry[col]

\* create_visualization_data: the table, None on an exception
CreateVisualizationData(reduced, data, labels, raises) ==
    IF \/ raises
       \/ reduced = NoneValue
       \/ labels = NoneValue
    THEN NoneValue
    ELSE IF \/ Len(reduced.value) # Len(data)
            \/ Len(labels.value) # Len(reduced.value)
    THEN NoneValue
    ELSE Some([i \in DOMAIN reduced.value |->
                 [x |-> reduced.value[i],
                  id |-> Cell(data[i], "id"),
                  filename |-> Cell(data[i], "filename"),
                  author |-> Cell([author |-> <<>>,
                                   metadata |-> data[i].metadata], "author"),
                  cluster |-> labels.value[i]]])

\* generate_plotly_visualization: the figure, None on an exception
GeneratePlotlyVisualization(table, raises) ==
    IF raises \/ table = NoneValue THEN NoneValue ELSE Some("fig")

----------------------------------------------------------------------------
(* VectorStoreVisualizer.visualize_vector_store                            *)

\* what the stages leave alone, whichever stage it is
VizFrame ==
    /\ UNCHANGED <<action, argsOk, mainPc, exc, calls>>
    /\ UNCHANGED uploadVars
    /\ UNCHANGED evalVars
    /\ UNCHANGED <<vector_store_id, ret, ctorVars, cliVars>>
    /\ UNCHANGED <<fetchSpace, vizStoreId>>

VectorStoresRetrieve(vsid, answer) ==
    [api |-> "vector_stores.retrieve", vector_store_id |-> vsid,
     raised |-> Raised(answer)]

EmbeddingQuery(vsid, answer) ==
    [api |-> "vector_stores.search", vector_store_id |-> vsid,
     raised |-> Raised(answer)]

\* the stage is over and visualize_vector_store returns None
VizReturnNone(message) ==
    /\ vizRet' = NoneValue
    /\ vizPc' = "returned"
    /\ printed' = printed \cup {message}

\* get_vector_store_info and the print of what it returned
VizStoreInfo ==
    /\ vizPc = "store_info"
    /\ \E answer \in VectorStoreAnswers({vizStoreId}, STORE_NAME) :
        /\ apiTrace' = Append(apiTrace,
                              VectorStoresRetrieve(vizStoreId, answer))
        /\ failedStages' = IF GetVectorStoreInfo(answer) = EmptyDict
                           THEN failedStages \cup {"store_info"}
                           ELSE failedStages
        /\ printed' = printed \cup {"Vector Store"} \cup
              (IF Raised(answer) THEN {"Error retrieving vector store info"}
                                 ELSE {})
    /\ stageLog' = Append(stageLog, "store_info")
    /\ vizPc' = "fetch"
    /\ UNCHANGED <<embeddings_data, reduced_embeddings, cluster_labels, df,
                   vizRet, vizExc>>
    /\ VizFrame

\* fetch_embeddings, and the return when it found nothing
VizFetch ==
    /\ vizPc = "fetch"
    /\ stageLog' = Append(stageLog, "fetch")
    /\ \E answer \in fetchSpace :
        /\ apiTrace' = Append(apiTrace, EmbeddingQuery(vizStoreId, answer))
        /\ embeddings_data' = FetchEmbeddings(answer)
        /\ failedStages' = IF Raised(answer)
                           THEN failedStages \cup {"fetch"}
                           ELSE failedStages
        /\ IF FetchEmbeddings(answer) = <<>>
           THEN VizReturnNone("No embeddings found or error occurred.")
           ELSE /\ vizPc' = "scale"
                /\ UNCHANGED <<printed, vizRet>>
    /\ UNCHANGED <<reduced_embeddings, cluster_labels, df, vizExc>>
    /\ VizFrame

\* np.array(...) and StandardScaler().fit_transform(...), outside any try
VizScale ==
    /\ vizPc = "scale"
    /\ stageLog' = Append(stageLog, "scale")
    /\ \E finite \in BOOLEAN :
        IF ScaleRaises(embeddings_data, finite)
        THEN /\ vizPc' = "raised"
             /\ vizExc' = "ValueError"
             /\ failedStages' = failedStages \cup {"scale"}
        ELSE /\ vizPc' = "reduce"
             /\ UNCHANGED <<vizExc, failedStages>>
    /\ UNCHANGED <<printed, apiTrace, embeddings_data, reduced_embeddings,
                   cluster_labels, df, vizRet>>
    /\ VizFrame

\* reduce_dimensions, and the return when it failed
VizReduce ==
    /\ vizPc = "reduce"
    /\ stageLog' = Append(stageLog, "reduce")
    /\ \E raises \in BOOLEAN :
        LET reduced == ReduceDimensions(embeddings_data, raises) IN
        /\ reduced_embeddings' = reduced
        /\ failedStages' = IF reduced = NoneValue
                           THEN failedStages \cup {"reduce"}
                           ELSE failedStages
        /\ IF IsNone(reduced)
           THEN VizReturnNone("Error reducing dimensions.")
           ELSE /\ vizPc' = "cluster"
                /\ UNCHANGED <<printed, vizRet>>
    /\ UNCHANGED <<apiTrace, embeddings_data, cluster_labels, df, vizExc>>
    /\ VizFrame

\* apply_clustering, and the return when it failed
VizCluster ==
    /\ vizPc = "cluster"
    /\ stageLog' = Append(stageLog, "cluster")
    /\ \E raises \in BOOLEAN :
       \E labels \in ClusterLabels(Len(embeddings_data)) :
        LET result == ApplyClustering(reduced_embeddings, labels, raises) IN
        /\ cluster_labels' = result
        /\ failedStages' = IF result = NoneValue
                           THEN failedStages \cup {"cluster"}
                           ELSE failedStages
        /\ IF IsNone(result)
           THEN VizReturnNone("Error applying clustering.")
           ELSE /\ vizPc' = "table"
                /\ UNCHANGED <<printed, vizRet>>
    /\ UNCHANGED <<apiTrace, embeddings_data, reduced_embeddings, df, vizExc>>
    /\ VizFrame

\* create_visualization_data, and the return when it failed
VizTable ==
    /\ vizPc = "table"
    /\ stageLog' = Append(stageLog, "table")
    /\ \E raises \in BOOLEAN :
        LET table == CreateVisualizationData(reduced_embeddings,
                                             embeddings_data,
                                             cluster_labels, raises) IN
        /\ df' = table
        /\ failedStages' = IF table = NoneValue
                           THEN failedStages \cup {"table"}
                           ELSE failedStages
        /\ IF IsNone(table)
           THEN VizReturnNone("Error creating visualization data.")
           ELSE /\ vizPc' = "plot"
                /\ UNCHANGED <<printed, vizRet>>
    /\ UNCHANGED <<apiTrace, embeddings_data, reduced_embeddings,
                   cluster_labels, vizExc>>
    /\ VizFrame

\* generate_plotly_visualization, and the return when it failed
VizPlot ==
    /\ vizPc = "plot"
    /\ stageLog' = Append(stageLog, "plot")
    /\ \E raises \in BOOLEAN :
        LET fig == GeneratePlotlyVisualization(df, raises) IN
        /\ failedStages' = IF fig = NoneValue
                           THEN failedStages \cup {"plot"}
                           ELSE failedStages
        /\ IF IsNone(fig)
           THEN VizReturnNone("Error generating visualization.")
           ELSE /\ vizPc' = "dash"
                /\ UNCHANGED <<printed, vizRet>>
    /\ UNCHANGED <<apiTrace, embeddings_data, reduced_embeddings,
                   cluster_labels, df, vizExc>>
    /\ VizFrame

\* what the Dash application may do when run_dash asks for it
DashOutcomes == {"no_dash", "app_none", "served", "run_server_raises"}

\* if run_dash: create_dash_app and app.run_server; then the return of df
VizDash ==
    /\ vizPc = "dash"
    /\ stageLog' = Append(stageLog, "dash")
    /\ \E outcome \in DashOutcomes :
        /\ failedStages' = IF outcome \in {"app_none", "run_server_raises"}
                           THEN failedStages \cup {"dash"}
                           ELSE failedStages
        /\ IF outcome = "run_server_raises"
           THEN /\ vizPc' = "raised"
                /\ vizExc' = "OSError"
                /\ UNCHANGED <<printed, vizRet>>
           ELSE /\ vizPc' = "returned"
                /\ vizRet' = df
                /\ printed' = IF outcome = "app_none"
                              THEN printed \cup {"Error creating Dash app."}
                              ELSE printed
                /\ UNCHANGED vizExc
    /\ UNCHANGED <<apiTrace, embeddings_data, reduced_embeddings,
                   cluster_labels, df>>
    /\ VizFrame

----------------------------------------------------------------------------
(* visualize_vector_store.py: the commands                                 *)

Commands == {"create", "upload", "visualize", "create-and-visualize"}

\* the function main() calls first for a command
FirstFunction(cmd) ==
    CASE cmd \in {"create", "create-and-visualize"} -> "create_store"
      [] cmd = "upload" -> "upload_pdfs"
      [] cmd = "visualize" -> "visualize"
      [] OTHER -> "none"

ClassOf(function) ==
    IF function = "visualize" THEN "VectorStoreVisualizer"
                              ELSE "OpenAIFileSearch"

\* a create_and_visualize that leaves args.store_id as the parser made it
ArgsStoreIdStale(cmd, created) == STORE_ID

\* args.store_id as visualize(args) reads it
ArgsStoreId(cmd, created) ==
    IF cmd = "create-and-visualize" THEN created ELSE STORE_ID

CliFrame ==
    /\ UNCHANGED <<action, argsOk, mainPc>>
    /\ UNCHANGED evalVars
    /\ UNCHANGED <<api_key, env_key, command>>

\* the constructor call that opens create_store, upload_pdfs and visualize
Construct ==
    /\ cliPc \in {"create_store", "upload_pdfs", "visualize"}
    /\ client = NoClient
    /\ client' = Constructed(ClassOf(cliPc), api_key, env_key)
    /\ self_api_key' = ApiKeyOf(api_key, env_key)
    /\ IF Constructed(ClassOf(cliPc), api_key, env_key).created
       THEN UNCHANGED <<cliPc, exc>>
       ELSE /\ cliPc' = "crash"
            /\ exc' = "ValueError"
    /\ UNCHANGED <<printed, calls, vector_store_id, callVars, store_id,
                   cliRet>>
    /\ UNCHANGED uploadVars
    /\ UNCHANGED vizVars
    /\ CliFrame

\* create_store(args), and what its caller does with the id
CliCreateStore ==
    /\ cliPc = "create_store"
    /\ client.created
    /\ \E answer \in VectorStoreAnswers(StoreIds, STORE_NAME) :
        LET store_details == CreateVectorStore(answer) IN
        /\ apiTrace' = Append(apiTrace, VectorStoresCreate(STORE_NAME, answer))
        /\ ret' = store_details
        /\ calls' = calls \cup
              {CallOfCreateVectorStore(IF Raised(answer) THEN "raises"
                                                         ELSE "ok")}
        /\ IF store_details = EmptyDict
           THEN /\ printed' = printed \cup {"Error creating vector store"}
                /\ store_id' = "None"
                /\ cliRet' = IF command = "create" THEN "None" ELSE "False"
                /\ cliPc' = "exit"
                /\ UNCHANGED <<self_api_key, client>>
           ELSE /\ printed' = printed \cup {"Vector store created"}
                /\ store_id' = store_details.id
                /\ IF command = "create"
                   THEN /\ cliRet' = store_details.id
                        /\ cliPc' = "exit"
                        /\ UNCHANGED <<self_api_key, client>>
                   ELSE /\ cliPc' = "upload_pdfs"
                        /\ self_api_key' = "unset"
                        /\ client' = NoClient
                        /\ UNCHANGED cliRet
    /\ UNCHANGED <<exc, vector_store_id>>
    /\ UNCHANGED uploadVars
    /\ UNCHANGED vizVars
    /\ CliFrame

\* upload_pdfs(args, store_id): the upload is entered
CliUploadPdfs ==
    /\ cliPc = "upload_pdfs"
    /\ client.created
    /\ UploadEnter(IF command = "upload" THEN STORE_ID ELSE store_id, listing)
    /\ cliPc' = "uploading"
    /\ UNCHANGED <<exc, calls, callVars, self_api_key, client, store_id,
                   cliRet>>
    /\ UNCHANGED vizVars
    /\ CliFrame

\* upload_pdfs returns whether a file was uploaded; create_and_visualize
\* prints an error when none was and goes on
CliUploadPdfsReturn ==
    /\ cliPc = "uploading"
    /\ upPc = "returned"
    /\ LET uploaded == upReturn.successful_uploads > 0 IN
       IF command = "upload"
       THEN /\ cliRet' = IF uploaded THEN "True" ELSE "False"
            /\ cliPc' = "exit"
            /\ printed' = printed \cup {"Upload complete"}
            /\ UNCHANGED <<self_api_key, client>>
       ELSE /\ cliPc' = "visualize"
            /\ printed' = printed \cup {"Upload complete"} \cup
                  (IF uploaded THEN {} ELSE {"Error uploading PDFs"})
            /\ self_api_key' = "unset"
            /\ client' = NoClient
            /\ UNCHANGED cliRet
    /\ UNCHANGED <<exc, calls, vector_store_id, callVars, store_id>>
    /\ UNCHANGED uploadVars
    /\ UNCHANGED vizVars
    /\ CliFrame

\* visualize(args): visualize_vector_store is entered
CliVisualize ==
    /\ cliPc = "visualize"
    /\ client.created
    /\ vizPc = "idle"
    /\ vizPc' = "store_info"
    /\ vizStoreId' = ArgsStoreId(command, store_id)
    /\ cliPc' = "visualizing"
    /\ UNCHANGED <<fetchSpace, stageLog, failedStages, embeddings_data,
                   reduced_embeddings, cluster_labels, df, vizRet, vizExc>>
    /\ UNCHANGED <<exc, printed, calls, vector_store_id, callVars,
                   self_api_key, client, store_id, cliRet>>
    /\ UNCHANGED uploadVars
    /\ CliFrame

\* visualize(args) returns whether a table came back
CliVisualizeReturn ==
    /\ cliPc = "visualizing"
    /\ vizPc \in {"returned", "raised"}
    /\ IF vizPc = "raised"
       THEN /\ cliPc' = "crash"
            /\ exc' = vizExc
            /\ UNCHANGED <<printed, cliRet>>
       ELSE /\ cliPc' = "exit"
            /\ cliRet' = IF vizRet # NoneValue THEN "True" ELSE "False"
            /\ printed' = printed \cup
                  {IF vizRet # NoneValue THEN "Visualization complete"
                                         ELSE "Error visualizing vector store"}
            /\ UNCHANGED exc
    /\ UNCHANGED <<calls, vector_store_id, callVars, self_api_key, client,
                   store_id>>
    /\ UNCHANGED uploadVars
    /\ UNCHANGED vizVars
    /\ CliFrame

----------------------------------------------------------------------------
(* Properties of the upload                                                *)

PdfEntries == {i \in DOMAIN listing : IsPdfName(listing[i])}

\* C1: when upload_pdf_files_to_vector_store returns, successful_uploads +
\* failed_uploads = total_files, and total_files is the number of .pdf files
\* of the directory, whatever the outcomes and the order of completion.
C1_CountsSumToTotal ==
    upPc = "returned" =>
        /\ upReturn.successful_uploads + upReturn.failed_uploads
              = upReturn.total_files
        /\ upReturn.total_files = Cardinality(PdfEntries)

C1_Witness ==
    /\ upPc = "returned"
    /\ upReturn.successful_uploads >= 1
    /\ upReturn.failed_uploads >= 2

\* C2: every PDF file of the directory gets exactly one call of
\* upload_single_pdf: never a second one, no file is left out or cancelled
\* when another file fails, and at the return each file has had its call.
C2_OneAttemptPerFile ==
    /\ \A f \in FileIdx : upCalls[f] <= 1
    /\ \A f \in FileIdx : upFut[f] # "cancelled"
    /\ upPc \in {"collect", "returned"} =>
          Cardinality(FileIdx) = Cardinality(PdfEntries)
    /\ upPc = "returned" =>
          \A f \in FileIdx : upCalls[f] = 1 /\ upResult[f] # NoResult

C2_Witness ==
    /\ upPc = "returned"
    /\ \E f, g \in FileIdx :
        /\ f < g
        /\ upResult[f].status = "failed"
        /\ upResult[g].status = "success"
        /\ upCalls[f] = 1
        /\ upCalls[g] = 1

\* C4: at most ten uploads are in flight at any moment, however many PDF
\* files there are, and an upload starts only when fewer than ten run.
C4_AtMostTenUploadsInFlight ==
    /\ Cardinality(UpRunning) <= 10
    /\ \A f \in FileIdx :
          (f > 10 /\ upFut[f] \in {"running", "done", "collected"}) =>
              \E g \in FileIdx : g < f /\ upFut[g] \in {"done", "collected"}

C4_Witness ==
    /\ Cardinality(UpRunning) = 10
    /\ \E f \in FileIdx : upFut[f] = "pending"
    /\ Cardinality(FileIdx) > 10

----------------------------------------------------------------------------
(* Properties of the evaluation                                            *)

\* the expected file name of query q is among the first k annotations
ExpectedInTopK(q) ==
    \E i \in 1..Len(evResponse[q].files) :
        /\ i <= k
        /\ evResponse[q].files[i] = rows[q]._id \o PDF_EXT

\* the 1-based position of the first such annotation
FirstHit(q) ==
    CHOOSE i \in 1..Len(evResponse[q].files) :
        /\ evResponse[q].files[i] = rows[q]._id \o PDF_EXT
        /\ \A j \in 1..(i - 1) :
              evResponse[q].files[j] # rows[q]._id \o PDF_EXT

\* 1/rank of the first hit in the top k, 0 without one
RRByDefinition(q) ==
    IF ExpectedInTopK(q) THEN Frac(1, FirstHit(q)) ELSE FracZero

RECURSIVE SumRR(_)
SumRR(n) == IF n = 0 THEN FracZero ELSE FracAdd(RRByDefinition(n), SumRR(n - 1))

\* C3 (as claimed): a query whose task raised is reported for itself alone:
\* the other queries are still evaluated and evaluate_retrieval returns its
\* metrics.
C3_QueryFailureIsolated ==
    (/\ evPc \in {"returned", "raised"}
     /\ \E q \in QueryIdx : evResponse[q].kind = "raises")
        => /\ metrics.returned
           /\ \A q \in QueryIdx : evFut[q] \in {"done", "failed"}

\* C5: the queries of evaluate_retrieval run on a pool of fixed size: the
\* number in flight never exceeds the size of the pool, which is the default
\* of the executor, min(32, cpu_count + 4), however many questions there are.
C5_QueriesInFlightBounded ==
    /\ Cardinality(EvRunning) <= cpu_count + 4
    /\ Cardinality(EvRunning) <= 32

C5_Witness ==
    /\ Cardinality(EvRunning) = cpu_count + 4
    /\ \E q \in QueryIdx : evFut[q] = "pending"
    /\ Cardinality(QueryIdx) > cpu_count + 4

\* C6: aggregation only after every result is in: the metrics exist only
\* when every query has finished and its result is in the list, and the
\* stats are returned only when every submitted upload has finished and been
\* counted.
C6_AggregateAfterAllResults ==
    /\ metrics.returned =>
          /\ \A q \in QueryIdx : evFut[q] = "done" /\ evResult[q].valid
          /\ Len(results) = Len(questions_dict)
    /\ upReturn # NotReturned =>
          /\ \A f \in FileIdx : upFut[f] = "collected" /\ upResult[f] # NoResult
          /\ upReturn.successful_uploads + upReturn.failed_uploads
                = Cardinality(PdfEntries)

C6_Witness ==
    /\ metrics.returned
    /\ Len(results) = 2
    /\ \A q \in QueryIdx : evFut[q] = "done"

\* C7: the returned recall@k is the number of queries whose expected file
\* name is among the first k retrieved names, divided by the number of
\* queries; it is 1 when every query has its expected name in its top k.
C7_RecallIsHitsOverQueries ==
    metrics.returned =>
        /\ FracEq(metrics.recall,
                  Frac(Cardinality({q \in QueryIdx : ExpectedInTopK(q)}),
                       Len(questions_dict)))
        /\ (\A q \in QueryIdx : ExpectedInTopK(q))
              => metrics.recall[1] = metrics.recall[2]

C7_Witness ==
    /\ metrics.returned
    /\ Len(rows) = 2
    /\ \A q \in QueryIdx : ExpectedInTopK(q)
    /\ \E q \in QueryIdx : Len(evResponse[q].files) > k
    /\ metrics.recall[1] = metrics.recall[2]

\* C8: the reciprocal rank of a query is 1/rank of the first occurrence of
\* the expected name in the top k, 0 when it is absent, and the returned mrr
\* is the sum of these over the number of queries.
C8_MrrIsMeanReciprocalRank ==
    /\ \A q \in QueryIdx :
          evFut[q] = "done" => FracEq(evResult[q].rr, RRByDefinition(q))
    /\ metrics.returned =>
          FracEq(metrics.mrr,
                 FracDivInt(SumRR(Len(questions_dict)), Len(questions_dict)))

C8_Witness ==
    /\ metrics.returned
    /\ Len(rows) = 2
    /\ evResult[1].rr = Frac(1, 2)
    /\ evResult[2].rr = Frac(1, 1)
    /\ evResponse[2].files = <<EntryName(2, PDF_EXT), EntryName(2, PDF_EXT)>>

----------------------------------------------------------------------------
(* Properties of the error handling                                        *)

\* C9 (as claimed): every method that calls the API wraps the call: when the
\* call raises, the method prints the exception and returns its sentinel,
\* and the exception does not reach the caller.
C9_EveryApiCallWrapped ==
    \A c \in calls :
        c.apiRaised => c.printedExc /\ c.returned # "propagated"

\* C10 (as claimed): the caller checks for the sentinel before it uses the
\* result: the search action, when vector_search returned None, prints a
\* message and ends without dereferencing None.
C10_SearchChecksForNone ==
    (/\ action = "search"
     /\ \E c \in calls : c.method = "vector_search" /\ c.returned = "None")
        => /\ mainPc # "crash"
           /\ exc = "none"

----------------------------------------------------------------------------
(* Properties of the visualizer                                            *)

\* C11: visualize_vector_store lets no exception of a stage escape: when a
\* stage fails (store info, fetch, array and standardization, reduction,
\* clustering, table, plot), it returns None.
C11_StageFailureGivesNone ==
    (/\ vizPc \in {"returned", "raised"}
     /\ \E s \in failedStages :
            s = "store_info" \/ \E i \in DOMAIN Stages : Stages[i] = s)
        => (vizPc = "returned" /\ vizRet = NoneValue)

\* C13: the table visualize_vector_store returns has one row for each entry
\* fetch_embeddings returned, and row i carries the id, the filename and the
\* cluster label of entry i.
C13_OneRowPerDocument ==
    (vizPc = "returned" /\ vizRet # NoneValue) =>
        /\ Len(vizRet.value) = Len(embeddings_data)
        /\ \A i \in DOMAIN vizRet.value :
            /\ vizRet.value[i].id = embeddings_data[i].id
            /\ vizRet.value[i].filename = embeddings_data[i].filename
            /\ vizRet.value[i].cluster = cluster_labels.value[i]

\* the stages of the claim among the stages invoked
PipelineLog == SelectSeq(stageLog, LAMBDA s : \E i \in DOMAIN Stages : Stages[i] = s)

\* the stage was invoked and gave its caller something to go on with
StageSucceeded(s) ==
    CASE s = "fetch" -> embeddings_data # <<>>
      [] s = "scale" -> "scale" \notin failedStages
      [] s = "reduce" -> reduced_embeddings \notin {NoReturn, NoneValue}
      [] s = "cluster" -> cluster_labels \notin {NoReturn, NoneValue}
      [] s = "table" -> df \notin {NoReturn, NoneValue}
      [] s = "plot" -> "plot" \notin failedStages

\* C14: the stages run in the order fetch, scale, reduce, cluster, table,
\* plot, each at most once, and a stage is invoked only when every stage
\* before it returned something other than a failure.
C14_StagesInOrder ==
    /\ Len(PipelineLog) <= Len(Stages)
    /\ \A i \in DOMAIN PipelineLog :
        /\ PipelineLog[i] = Stages[i]
        /\ \A j \in 1..(i - 1) : StageSucceeded(Stages[j])

C14_Witness ==
    /\ vizPc = "returned"
    /\ PipelineLog = Stages
    /\ vizRet # NoneValue
    /\ "store_info" \in failedStages

----------------------------------------------------------------------------
(* Properties of the tasks of the upload                                   *)

\* a task of the pool finishes
WorkerStep == \E f \in FileIdx : upFut[f] = "running" /\ upFut'[f] # "running"

\* the collecting thread takes the result of one finished task
CollectorStep ==
    \E f \in FileIdx :
        /\ upFut[f] = "done"
        /\ upFut' = [upFut EXCEPT ![f] = "collected"]

\* C12: a running upload_single_pdf task does not write the stats
\* dictionary; the counters change only when the collecting thread takes one
\* finished task, and they count every collected task once.
C12_StatsOnlyByCollector ==
    [][upPc # "idle" =>
          /\ WorkerStep => stats' = stats
          /\ stats' # stats => CollectorStep
          /\ stats'.successful_uploads + stats'.failed_uploads
                = Cardinality({f \in DOMAIN upFut' : upFut'[f] = "collected"})
      ]_vars

C12_Witness ==
    \E f, g \in FileIdx :
        /\ upFut[f] = "running"
        /\ upFut[g] = "collected"
        /\ stats.successful_uploads + stats.failed_uploads = 1

ApiCallsTo(log, api) == {i \in DOMAIN log : log[i].api = api}

\* C15: a successful upload_single_pdf returns the basename of the path with
\* status success, after one files.create and one vector_stores.files.create
\* for the given store and the id files.create answered with.
C15_UploadSinglePdfSuccess ==
    \A f \in FileIdx :
        upResult[f].status = "success" =>
            /\ upResult[f] = [file |-> pdf_files[f].name, status |-> "success"]
            /\ Cardinality(ApiCallsTo(apiLog[f], "files.create")) = 1
            /\ Cardinality(ApiCallsTo(apiLog[f],
                                      "vector_stores.files.create")) = 1
            /\ \A i \in ApiCallsTo(apiLog[f], "vector_stores.files.create") :
                /\ apiLog[f][i].vector_store_id = STORE_ID
                /\ \E j \in ApiCallsTo(apiLog[f], "files.create") :
                      /\ j < i
                      /\ apiLog[f][i].file_id = apiLog[f][j].answer

C15_Witness ==
    \E f \in FileIdx :
        /\ upResult[f].status = "success"
        /\ Len(apiLog[f]) = 2

----------------------------------------------------------------------------
(* Properties of the single-call methods                                   *)

\* C16: create_vector_store calls the creation API once with the given name
\* and returns the id, name, created_at and completed file count of the
\* answer, or the empty dictionary when the API raised.
C16_CreateVectorStoreDetails ==
    (action = "create_store" /\ mainPc = "exit" /\ argsOk) =>
        /\ Len(apiTrace) = 1
        /\ apiTrace[1].api = "vector_stores.create"
        /\ apiTrace[1].name = STORE_NAME
        /\ IF apiTrace[1].answer.kind = "raises"
           THEN ret = EmptyDict
           ELSE /\ ret.id = apiTrace[1].answer.id
                /\ ret.name = apiTrace[1].answer.name
                /\ ret.created_at = apiTrace[1].answer.created_at
                /\ ret.file_count = apiTrace[1].answer.file_counts.completed

C16_Witness ==
    /\ action = "create_store"
    /\ mainPc = "exit"
    /\ argsOk
    /\ ret # EmptyDict
    /\ ret.id = "vs_2"
    /\ ret.file_count = 0

\* C17: llm_integrated_search calls the responses API once and, when that
\* succeeds, returns its text and each annotated filename exactly once.
C17_LlmSearchFilesUsed ==
    (action = "llm_search" /\ mainPc = "exit" /\ argsOk) =>
        /\ Len(apiTrace) = 1
        /\ apiTrace[1].api = "responses.create"
        /\ apiTrace[1].answer.kind # "raises" =>
            LET annotations == apiTrace[1].answer.files IN
            /\ ret.response = <<"text", ToString(Len(annotations))>>
            /\ \A i, j \in DOMAIN ret.files_used :
                  ret.files_used[i] = ret.files_used[j] => i = j
            /\ {ret.files_used[i] : i \in DOMAIN ret.files_used}
                  = {annotations[i] : i \in DOMAIN annotations}

C17_Witness ==
    /\ action = "llm_search"
    /\ mainPc = "exit"
    /\ argsOk
    /\ apiTrace[1].answer.kind # "raises"
    /\ Len(apiTrace[1].answer.files) = 3
    /\ Len(ret.files_used) = 2

\* C18: vector_search calls the search API once with the given store and
\* query and returns the answer as it is, or None when the API raised.
C18_VectorSearchUnchanged ==
    (action = "search" /\ mainPc \in {"exit", "crash"} /\ argsOk) =>
        /\ Len(apiTrace) = 1
        /\ apiTrace[1].api = "vector_stores.search"
        /\ apiTrace[1].vector_store_id = STORE_ID
        /\ apiTrace[1].query = QUERY
        /\ ret = IF apiTrace[1].answer.kind = "raises"
                 THEN NoneValue
                 ELSE apiTrace[1].answer

C18_Witness ==
    /\ action = "search"
    /\ mainPc = "exit"
    /\ argsOk
    /\ Len(ret.data) = 2

----------------------------------------------------------------------------
(* Properties of visualize_vector_store.py                                 *)

\* C19: a constructor takes the api_key argument when it holds a key and the
\* environment variable otherwise, and raises ValueError, creating no
\* client, exactly when neither holds a key.
C19_ConstructorKey ==
    client.class # "none" =>
        /\ ~client.created <=> (api_key \in {"None", ""}
                                   /\ env_key \in {"None", ""})
        /\ ~client.created =>
              /\ cliPc = "crash"
              /\ exc = "ValueError"
              /\ client.api_key = "None"
        /\ client.created =>
              /\ client.api_key = IF api_key \in {"None", ""} THEN env_key
                                                              ELSE api_key
              /\ self_api_key = client.api_key

C19_Witness ==
    /\ client.class = "VectorStoreVisualizer"
    /\ ~client.created
    /\ api_key = ""
    /\ env_key = "None"
    /\ exc = "ValueError"

\* C20: create_and_visualize creates the store, then uploads, then
\* visualizes: no upload and no visualization when the creation failed, a
\* visualization even when no file was uploaded, and always of the store
\* that was created.
C20_CreateUploadVisualize ==
    command = "create-and-visualize" =>
        /\ upPc # "idle" =>
              /\ ret \notin {NoReturn, EmptyDict}
              /\ vector_store_id = ret.id
        /\ vizPc # "idle" =>
              /\ upPc = "returned"
              /\ vizStoreId = ret.id
        /\ (cliPc = "exit" /\ ret = EmptyDict) =>
              /\ cliRet = "False"
              /\ upPc = "idle"
              /\ vizPc = "idle"
        /\ (cliPc \in {"exit", "crash"} /\ ret # EmptyDict) =>
              vizPc \in {"returned", "raised"}

C20_Witness ==
    /\ command = "create-and-visualize"
    /\ cliPc = "exit"
    /\ upPc = "returned"
    /\ upReturn.total_files = 1
    /\ upReturn.successful_uploads = 0
    /\ vizPc = "returned"
    /\ vizStoreId = "vs_2"
    /\ cliRet = "True"

----------------------------------------------------------------------------
(* Properties of the metrics                                               *)

\* C22: whenever evaluate_retrieval returns, the value under precision@k
\* equals the value under recall@k, the fraction of the queries whose
\* expected file is among the first k retrieved names, whatever was retrieved.
C22_PrecisionEqualsRecall ==
    metrics.returned =>
        /\ FracEq(metrics.precision, metrics.recall)
        /\ FracEq(metrics.precision,
                  Frac(Cardinality({q \in QueryIdx : ExpectedInTopK(q)}),
                       Len(questions_dict)))

C22_Witness ==
    /\ metrics.returned
    /\ k = 2
    /\ Len(rows) = 2
    /\ evResponse[1].files = <<EntryName(1, PDF_EXT), EntryName(2, PDF_EXT)>>
    /\ ExpectedInTopK(2)
    /\ metrics.precision = Frac(2, 2)

\* C27: evaluate_retrieval with an empty questions_dict submits no query and
\* ends in a ZeroDivisionError while aggregating; it returns no metrics.
C27_EmptyQuestionsDivideByZero ==
    (action = "evaluate" /\ questions_dict = <<>> /\ evPc # "idle") =>
        /\ QueryIdx = {}
        /\ \A c \in calls : c.method # "process_query"
        /\ evPc \in {"submit", "collect", "raised"}
        /\ ~metrics.returned
        /\ mainPc # "exit"
        /\ evPc = "raised" => exc = "ZeroDivisionError" /\ mainPc = "crash"

C27_Witness ==
    /\ action = "evaluate"
    /\ questions_dict = <<>>
    /\ evPc = "raised"
    /\ exc = "ZeroDivisionError"
    /\ calls = {}

\* the sum, over the first n queries, of a per-query value that is taken
\* from the result of a query with annotations and is 0 for the others
RECURSIVE SumAnnotated(_, _)
SumAnnotated(n, field) ==
    IF n = 0 THEN FracZero
    ELSE FracAdd(IF evResponse[n].kind = "annotations"
                 THEN evResult[n][field]
                 ELSE FracZero,
                 SumAnnotated(n - 1, field))

\* query q had annotations, and its expected file is not in the top k
ExpectedNotRetrieved(q) ==
    evResponse[q].kind = "annotations" /\ ~ExpectedInTopK(q)

\* C28: a query whose response has no annotations contributes (False, 0, 0),
\* the same as a query whose expected file was not retrieved, and is counted
\* in the number of queries that recall@k, mrr and map are divided by.
C28_NoAnnotationsCountsAsMiss ==
    /\ \A q \in QueryIdx :
          (/\ evFut[q] = "done"
           /\ evResponse[q].kind = "no_annotations" \/ ExpectedNotRetrieved(q))
             => /\ ~evResult[q].correct
                /\ FracEq(evResult[q].rr, FracZero)
                /\ FracEq(evResult[q].ap, FracZero)
    /\ metrics.returned =>
          LET n == Len(questions_dict) IN
          /\ FracEq(metrics.recall,
                    Frac(Cardinality({q \in QueryIdx : ExpectedInTopK(q)}), n))
          /\ FracEq(metrics.mrr, FracDivInt(SumAnnotated(n, "rr"), n))
          /\ FracEq(metrics.map, FracDivInt(SumAnnotated(n, "ap"), n))

C28_Witness ==
    /\ metrics.returned
    /\ Len(rows) = 2
    /\ evResponse[1] = NoAnnotations
    /\ evResponse[2].files = <<EntryName(2, PDF_EXT)>>
    /\ metrics.recall = Frac(1, 2)
    /\ FracEq(metrics.mrr, Frac(1, 2))
    /\ FracEq(metrics.map, Frac(1, 2))

----------------------------------------------------------------------------
(* Properties of the returned stats                                        *)

\* the files whose upload_single_pdf call returned the given status
FilesWithStatus(status) == {f \in FileIdx : upResult[f].status = status}

\* C23: the returned successful_uploads and failed_uploads and the set of
\* the entries of errors are determined by the outcome of each file alone,
\* the same for every order of completion; only the order of errors varies.
C23_StatsIndependentOfOrder ==
    upPc = "returned" =>
        /\ upReturn.successful_uploads = Cardinality(FilesWithStatus("success"))
        /\ upReturn.failed_uploads = Cardinality(FilesWithStatus("failed"))
        /\ {upReturn.errors[i] : i \in DOMAIN upReturn.errors}
              = {upResult[f] : f \in FilesWithStatus("failed")}
        /\ Len(upReturn.errors) = Cardinality(FilesWithStatus("failed"))

C23_Witness ==
    /\ upPc = "returned"
    /\ upReturn.successful_uploads = 1
    /\ \E f, g \in FileIdx :
        /\ f < g
        /\ upReturn.errors = <<upResult[g], upResult[f]>>

----------------------------------------------------------------------------
(* Properties of the two calls of one upload                               *)

\* the ids of the file objects the files.create calls of a log answered with
CreatedFiles(log) ==
    {log[j].answer : j \in {i \in ApiCallsTo(log, "files.create") :
                               log[i].answer # "raises"}}

\* the ids a log attached to a vector store, and the ids it deleted
AttachedFiles(log) ==
    {log[i].file_id : i \in ApiCallsTo(log, "vector_stores.files.create")}
DeletedFiles(log) ==
    {log[i].file_id : i \in ApiCallsTo(log, "files.delete")}

\* C26: upload_single_pdf attaches a file only after files.create answered
\* for it; when files.create raises there is no attach call; when the attach
\* call raises the result is "failed" and the created file stays: it is not
\* deleted and no further attach is tried.
C26_AttachOnlyAfterCreate ==
    \A f \in FileIdx :
        LET log == apiLog[f] IN
        /\ \A i \in ApiCallsTo(log, "vector_stores.files.create") :
              \E j \in ApiCallsTo(log, "files.create") :
                  /\ j < i
                  /\ log[j].answer # "raises"
                  /\ log[i].file_id = log[j].answer
        /\ (\E j \in ApiCallsTo(log, "files.create") : log[j].answer = "raises")
              => /\ AttachedFiles(log) = {}
                 /\ upResult[f].status = "failed"
        /\ (upResult[f].status = "failed" /\ AttachedFiles(log) # {})
              => /\ upResult[f] = [file |-> pdf_files[f].name,
                                   status |-> "failed",
                                   error |-> "attach_raises"]
                 /\ Cardinality(ApiCallsTo(log, "vector_stores.files.create")) = 1
                 /\ log[Len(log)].api = "vector_stores.files.create"
                 /\ CreatedFiles(log) \ DeletedFiles(log)
                        = {FileIdOf(pdf_files[f])}

C26_Witness ==
    \E f, g \in FileIdx :
        /\ upResult[f].status = "failed"
        /\ upResult[f].error = "attach_raises"
        /\ Len(apiLog[f]) = 2
        /\ upResult[g].status = "failed"
        /\ upResult[g].error = "files_create_raises"
        /\ Len(apiLog[g]) = 1

\* C25 (as claimed): for every key of questions_dict that the upload step
\* accepts as a PDF file name (it ends in ".pdf" in any letter case), the
\* expected file name that is compared with the retrieved names, the key
\* without its ".pdf" with ".pdf" appended, is the key itself.
C25_ExpectedFilenameIsKey ==
    evPc # "idle" =>
        \A q \in QueryIdx :
            IsPdfName(questions_dict[q].filename) =>
                ExpectedFilename(rows[q]) = questions_dict[q].filename

----------------------------------------------------------------------------
(* Termination of the upload                                               *)

\* the upload of file f has returned its result
TaskEnded(f) == upFut[f] \in {"done", "collected"}

\* C21: upload_pdf_files_to_vector_store returns its stats exactly when every
\* submitted upload ends: it returns only after every task has ended, once
\* every task has ended it does return, and from the moment one call never
\* answers it never returns, as nothing times out or cancels.
C21_ReturnsIffEveryTaskEnds ==
    /\ [](upPc = "returned" => \A f \in FileIdx : TaskEnded(f))
    /\ [](upPc \in {"submit", "collect"} =>
             <>(upPc = "returned" \/ \E f \in FileIdx : upFut[f] = "blocked"))
    /\ []((\E f \in FileIdx : upFut[f] = "blocked") => [](upPc # "returned"))

C21_Witness ==
    /\ upPc = "collect"
    /\ \E f \in FileIdx :
        /\ upFut[f] = "blocked"
        /\ \A g \in FileIdx \ {f} : upFut[g] = "collected"
    /\ stats.successful_uploads + stats.failed_uploads = 2
    /\ upReturn = NotReturned

----------------------------------------------------------------------------
(* Specifications                                                          *)

Listings(n) ==
    {[i \in 1..n |-> EntryName(i, ext[i])] : ext \in [1..n -> Extensions]}

QuestionsDict(n, ext) ==
    [i \in 1..n |-> [filename |-> EntryName(i, ext),
                     query |-> <<"q", ToString(i)>>]]

InitMain ==
    /\ argsOk \in BOOLEAN
    /\ mainPc = "start"
    /\ exc = "none"
    /\ printed = {}
    /\ calls = {}

InitUploadIdle ==
    /\ pdf_files = <<>>
    /\ upPc = "idle"
    /\ upFut = <<>>
    /\ upResult = <<>>
    /\ upCalls = <<>>
    /\ apiLog = <<>>
    /\ stats = NotReturned
    /\ upReturn = NotReturned

InitEvalIdle ==
    /\ rows = <<>>
    /\ evPc = "idle"
    /\ evFut = <<>>
    /\ evResponse = <<>>
    /\ evResult = <<>>
    /\ results = <<>>
    /\ metrics = NoMetrics

InitCallIdle ==
    /\ vector_store_id = "unset"
    /\ apiTrace = <<>>
    /\ ret = NoReturn

InitVizIdle ==
    /\ vizPc = "idle"
    /\ vizStoreId = "unset"
    /\ stageLog = <<>>
    /\ failedStages = {}
    /\ embeddings_data = <<>>
    /\ reduced_embeddings = NoReturn
    /\ cluster_labels = NoReturn
    /\ df = NoReturn
    /\ vizRet = NoReturn
    /\ vizExc = "none"

\* main() of search_api_implementation.py has constructed its
\* OpenAIFileSearch from the key in the environment; the other script is
\* not running
InitSearchApi ==
    /\ InitCallIdle
    /\ InitVizIdle
    /\ api_key = "None"
    /\ env_key = "sk-env"
    /\ self_api_key = ApiKeyOf(api_key, env_key)
    /\ client = Constructed("OpenAIFileSearch", api_key, env_key)
    /\ command = "none"
    /\ cliPc = "none"
    /\ store_id = "unset"
    /\ cliRet = "unset"
    /\ fetchSpace = {}

\* one run of the command line: an action, its arguments, the directory or
\* the questions it works on, and the host
Init ==
    /\ InitMain
    /\ InitSearchApi
    /\ InitUploadIdle
    /\ InitEvalIdle
    /\ action \in Actions
    /\ cpu_count = MaxCpu
    /\ upSpace = [f \in 1..MaxFiles |-> UploadOutcomes]
    /\ evSpace = AllResponses
    /\ IF action \in {"upload", "generate_questions"}
       THEN \E n \in 0..MaxFiles : listing \in Listings(n)
       ELSE listing = <<>>
    /\ IF action = "evaluate"
       THEN /\ k \in 1..MaxK
            /\ \E n \in 0..MaxQueries :
                   questions_dict = QuestionsDict(n, PDF_EXT)
       ELSE /\ k = 1
            /\ questions_dict = <<>>

\* runs with more tasks than the pool has workers: a directory of PDF files
\* of which the first fails to upload, or a dictionary of questions asked
\* while the responses API is up or while it is down
InitPool ==
    /\ InitMain
    /\ InitSearchApi
    /\ InitUploadIdle
    /\ InitEvalIdle
    /\ action \in Actions
    /\ cpu_count = MaxCpu
    /\ k = 1
    /\ upSpace = [f \in 1..(max_workers + PoolExtra) |->
                    IF f = 1 THEN {"files_create_raises"} ELSE {"success"}]
    /\ IF action = "evaluate"
       THEN evSpace \in {{ApiRaises}, {Annotated(<<EntryName(1, PDF_EXT)>>)}}
       ELSE evSpace = {ApiRaises}
    /\ IF action \in {"upload", "generate_questions"}
       THEN listing = [i \in 1..(max_workers + PoolExtra) |->
                         EntryName(i, PDF_EXT)]
       ELSE listing = <<>>
    /\ IF action = "evaluate"
       THEN questions_dict =
               QuestionsDict(default_max_workers(cpu_count) + PoolExtra,
                             PDF_EXT)
       ELSE questions_dict = <<>>

Next ==
    \/ MainArgsMissing
    \/ MainCreateStore
    \/ MainUpload
    \/ MainSearch
    \/ MainLlmSearch
    \/ MainGenerateQuestions
    \/ GenerateQuestions
    \/ GenerateQuestionsOutput
    \/ MainEvaluate
    \/ UploadSubmit
    \/ UploadSubmitted
    \/ \E f \in FileIdx : UploadStart(f)
    \/ \E f \in FileIdx : UploadSinglePdf(f)
    \/ \E f \in FileIdx : UploadCollect(f)
    \/ UploadReturn
    \/ EvalSubmit
    \/ EvalSubmitted
    \/ \E q \in QueryIdx : EvalStart(q)
    \/ \E q \in QueryIdx : EvalProcessQuery(q)
    \/ EvalCollect
    \/ EvalRaise
    \/ EvalAggregate

Spec == Init /\ [][Next]_vars

\* a store that holds one document, with its embedding
OneDocument ==
    [kind |-> "search_results",
     data |-> <<[id |-> <<"doc", "1">>,
                 filename |-> EntryName(1, PDF_EXT),
                 embedding |-> "values",
                 metadata |-> {}]>>]

\* one run of visualize_vector_store.py: a command, the keys, the directory
\* it uploads and what the store answers to the embedding query
InitCli ==
    /\ action = "none"
    /\ argsOk = TRUE
    /\ mainPc = "none"
    /\ exc = "none"
    /\ printed = {}
    /\ calls = {}
    /\ InitUploadIdle
    /\ InitEvalIdle
    /\ InitCallIdle
    /\ InitVizIdle
    /\ cpu_count = MaxCpu
    /\ k = 1
    /\ questions_dict = <<>>
    /\ evSpace = {ApiRaises}
    /\ upSpace = [f \in 1..CliMaxFiles |-> UploadOutcomes]
    /\ command \in Commands
    /\ cliPc = FirstFunction(command)
    /\ store_id = "unset"
    /\ cliRet = "unset"
    /\ self_api_key = "unset"
    /\ client = NoClient
    /\ IF command \in {"upload", "create-and-visualize"}
       THEN \E n \in 0..CliMaxFiles : listing \in Listings(n)
       ELSE listing = <<>>
    /\ CASE command = "create" ->
              /\ api_key \in KeyArguments
              /\ env_key \in KeyEnvironments
              /\ fetchSpace = {}
         [] command = "upload" ->
              /\ api_key = "None"
              /\ env_key = "sk-env"
              /\ fetchSpace = {}
         [] command = "visualize" ->
              \/ /\ api_key = "sk-arg"
                 /\ env_key = "None"
                 /\ fetchSpace = EmbeddingAnswers
              \/ /\ api_key \in KeyArguments
                 /\ env_key \in KeyEnvironments
                 /\ fetchSpace = {ApiException}
         [] command = "create-and-visualize" ->
              /\ api_key = "None"
              /\ env_key = "sk-env"
              /\ fetchSpace = {ApiException, OneDocument}

NextCli ==
    \/ Construct
    \/ CliCreateStore
    \/ CliUploadPdfs
    \/ CliUploadPdfsReturn
    \/ CliVisualize
    \/ CliVisualizeReturn
    \/ UploadSubmit
    \/ UploadSubmitted
    \/ \E f \in FileIdx : UploadStart(f)
    \/ \E f \in FileIdx : UploadSinglePdf(f)
    \/ \E f \in FileIdx : UploadCollect(f)
    \/ UploadReturn
    \/ VizStoreInfo
    \/ VizFetch
    \/ VizScale
    \/ VizReduce
    \/ VizCluster
    \/ VizTable
    \/ VizPlot
    \/ VizDash

SpecCli == InitCli /\ [][NextCli]_vars

SpecPool == InitPool /\ [][Next]_vars

----------------------------------------------------------------------------
(* The evaluation over the file names a directory can hold                 *)

\* the endings of the keys of a questions file: the names generate_questions
\* takes from a directory, in either case or with the ending twice, and a
\* name that is no PDF file
KeyExtensions == Extensions \cup {PDF_EXT \o PDF_EXT}

QuestionsDicts(n) ==
    {[i \in 1..n |-> [filename |-> EntryName(i, ext[i]),
                      query |-> <<"q", ToString(i)>>]] :
        ext \in [1..n -> KeyExtensions]}

\* one run of the evaluate action on a questions file; the store answers a
\* query with the name of a file of the dictionary, without annotations, or
\* the call raises
InitKeys ==
    /\ argsOk = TRUE
    /\ mainPc = "start"
    /\ exc = "none"
    /\ printed = {}
    /\ calls = {}
    /\ InitSearchApi
    /\ InitUploadIdle
    /\ InitEvalIdle
    /\ action = "evaluate"
    /\ cpu_count = MaxCpu
    /\ upSpace = [f \in 1..MaxFiles |-> UploadOutcomes]
    /\ listing = <<>>
    /\ k = 1
    /\ \E n \in 0..MaxQueries : questions_dict \in QuestionsDicts(n)
    /\ evSpace = {ApiRaises, NoAnnotations}
                    \cup {Annotated(<<questions_dict[i].filename>>) :
                            i \in DOMAIN questions_dict}

NextKeys ==
    \/ MainEvaluate
    \/ EvalSubmit
    \/ EvalSubmitted
    \/ \E q \in QueryIdx : EvalStart(q)
    \/ \E q \in QueryIdx : EvalProcessQuery(q)
    \/ EvalCollect
    \/ EvalRaise
    \/ EvalAggregate

SpecKeys == InitKeys /\ [][NextKeys]_vars

----------------------------------------------------------------------------
(* The upload with calls that may never answer                             *)

\* one run of the upload action on a directory of PDF files
InitLive ==
    /\ argsOk = TRUE
    /\ mainPc = "start"
    /\ exc = "none"
    /\ printed = {}
    /\ calls = {}
    /\ InitSearchApi
    /\ InitUploadIdle
    /\ InitEvalIdle
    /\ action = "upload"
    /\ cpu_count = MaxCpu
    /\ k = 1
    /\ questions_dict = <<>>
    /\ evSpace = {ApiRaises}
    /\ upSpace = [f \in 1..MaxFiles |-> UploadOutcomes]
    /\ \E n \in 0..MaxFiles : listing = [i \in 1..n |-> EntryName(i, PDF_EXT)]

\* the steps of the submitting thread
UploadMainThread ==
    \/ MainUpload
    \/ UploadSubmit
    \/ UploadSubmitted
    \/ \E f \in FileIdx : UploadCollect(f)
    \/ UploadReturn

NextLive ==
    \/ UploadMainThread
    \/ \E f \in FileIdx : UploadStart(f)
    \/ \E f \in FileIdx : UploadSinglePdf(f)
    \/ \E f \in FileIdx : UploadBlock(f)

\* the submitting thread and the workers of the pool keep running: a pending
\* task is started when a worker is free, and a started task comes to its
\* return unless one of its calls never answers
FairLive ==
    /\ WF_vars(UploadMainThread)
    /\ \A f \in 1..MaxFiles :
        /\ WF_vars(f \in FileIdx /\ UploadStart(f))
        /\ WF_vars(f \in FileIdx /\ (UploadSinglePdf(f) \/ UploadBlock(f)))

SpecLive == InitLive /\ [][NextLive]_vars /\ FairLive

====
